---- MODULE Spec2Model ----
(***************************************************************************)
(* Model of graph_execution.py: the graph builder's edge recording, the    *)
(* Kahn topological sort with its FIFO / LIFO tie-break, the serial        *)
(* executor and the concurrent scheduler on a ThreadPoolExecutor.          *)
(*                                                                         *)
(* Nodes are the integers 1..n; the number of a node is its position in    *)
(* the builder's all_requirements list (its construction order).           *)
(***************************************************************************)
EXTENDS Integers, Sequences, FiniteSets, TLC

(* ------------------------------ bounds -------------------------------- *)

\* Largest node count / edge count of a graph handed to run_concurrently.
MaxRunNodes == 4
MaxRunEdges == 3
\* Node count of the wide graphs (more independent nodes than pool threads).
MaxWideNodes == 5
\* Largest node count of a graph given to both executors in turn.
MaxEqNodes == 3
\* Largest node count / edge count of a graph handed to topological_sort.
MaxSortNodes == 4
MaxSortEdges == 4
\* Largest node count of a sequence handed to run_serially alone.
MaxSerialNodes == 3
\* Node count of a graph handed to run_concurrently with a raising work function.
MaxFailNodes == 3
\* Largest num_accounts given to build_graph.
MaxAccounts == 2

(* --------------------------- program constants ------------------------ *)

\* ThreadPoolExecutor(max_workers=4)
max_workers == 4

VARIABLES
    \* build_graph: its argument, the loop position in all_requirements, its line
    num_accounts, b_i, b_pc,
    \* the graph under topological_sort: dag.nodes() order and adjacency lists
    g_nodes, g_adj, breadth_first,
    \* topological_sort locals
    inbound_counts, ready_queue, sorted_nodes, ts_pc,
    \* run_serially: input sequence, loop position, result map, call log
    depth_first_sorted_nodes, raises, s_i, serial_results, s_calls, s_pc,
    \* run_concurrently: the global dag's edge set, the input ordering
    dag, breadth_first_sorted_nodes,
    \* dispatch loop position and the line the dispatch thread is at
    i, d_pc,
    \* per submitted future (numbered by loop position): its state,
    \* whether handle_done is attached, and where handle_done stands
    fut, callbacks, hd,
    \* worker threads holding a work item; shared result map and in-progress dict
    worker, results, in_progress

ts_vars == <<g_nodes, g_adj, breadth_first, inbound_counts, ready_queue, sorted_nodes, ts_pc>>
s_vars == <<depth_first_sorted_nodes, s_i, serial_results, s_calls, s_pc>>
rc_vars == <<dag, breadth_first_sorted_nodes, i, d_pc, fut, callbacks, hd, worker,
             results, in_progress>>
b_vars == <<num_accounts, b_i, b_pc>>
vars == <<b_vars, ts_vars, s_vars, raises, rc_vars>>

(* ------------------------------ helpers ------------------------------- *)

Range(s) == {s[k] : k \in DOMAIN s}

\* the value a non-raising work function returns for a node (Requirement.sync)
sync(node) == <<"Result of", node>>

\* fun(node): the returned value, or the marker of a raised exception
fun(node) == IF node \in raises THEN <<"Exception of", node>> ELSE sync(node)

\* a callback that takes an exception for a value
IsExceptionNever(outcome) == FALSE

\* the outcome of a call is a raised exception
IsException(outcome) == outcome[1] = "Exception of"

\* the successors of node, where its predecessors were asked for
predecessors_reversed(node) == {e[2] : e \in {x \in dag : x[1] = node}}

\* dag.predecessors(node) of the global dag
predecessors(node) == {e[1] : e \in {x \in dag : x[2] = node}}

\* every node with a path to node in the edge set es
RECURSIVE Ancestors(_, _)
Ancestors(node, es) ==
    LET ps == {e[1] : e \in {x \in es : x[2] = node}}
    IN  ps \cup UNION {Ancestors(p, es) : p \in ps}

\* sequence seq is a topological order of edge set es over its own elements
IsTopological(seq, es) ==
    /\ \A a, b \in DOMAIN seq : a # b => seq[a] # seq[b]
    /\ \A e \in es : \E a, b \in DOMAIN seq : a < b /\ seq[a] = e[1] /\ seq[b] = e[2]

(* ----------------------------- build_graph ---------------------------- *)

\* seq with x appended unless it is already there (DiGraph.add_node)
AddNode(seq, x) == IF x \in Range(seq) THEN seq ELSE Append(seq, x)

\* the members of set S in construction order, as a sequence
RECURSIVE InOrder(_)
InOrder(S) ==
    IF S = {} THEN <<>>
    ELSE LET m == CHOOSE x \in S : \A y \in S : x <= y
         IN  <<m>> \o InOrder(S \ {m})

\* g.add_edge(dep, req) for every dep of the list deps: a node the graph
\* does not have yet is added by add_edge
RECURSIVE AddEdgeNodes(_, _)
AddEdgeNodes(seq, deps) ==
    IF deps = <<>> THEN seq
    ELSE AddEdgeNodes(AddNode(seq, Head(deps)), Tail(deps))

\* lines 96-102, the node order of the DiGraph after the requirements
\* req..n were looped over; es holds <<dep, req>> for each dependency
RECURSIVE GraphNodes(_, _, _, _)
GraphNodes(seq, req, n, es) ==
    IF req > n THEN seq
    ELSE GraphNodes(AddEdgeNodes(AddNode(seq, req),
                                 InOrder({e[1] : e \in {x \in es : x[2] = req}})),
                    req + 1, n, es)

\* lines 96-102, the adjacency lists: dep's successors in the order in which
\* the loop over the requirements called add_edge(dep, req)
GraphAdj(n, es) ==
    [d \in 1..n |-> InOrder({e[2] : e \in {x \in es : x[1] = d}})]

(* ------------------- build_graph(num_accounts) ------------------------ *)

\* lines 81-84: the requirements of the syslog account (account 0)
SyslogRequirements ==
    << [kind |-> "CreateAccount", account |-> 0],
       [kind |-> "AdminAccess", account |-> 0],
       [kind |-> "S3Bucket", account |-> 0],
       [kind |-> "SQSQueue", account |-> 0] >>

\* lines 88-92: the requirements of PDU account n
PduRequirements(n) ==
    << [kind |-> "CreateAccount", account |-> n],
       [kind |-> "AdminAccess", account |-> n],
       [kind |-> "CloudTrailSNSTopic", account |-> n],
       [kind |-> "CloudTrailTrail", account |-> n] >>

\* lines 77-92: all_requirements for accounts..num
RECURSIVE RequirementsFrom(_, _)
RequirementsFrom(n, num) ==
    IF n > num THEN <<>> ELSE PduRequirements(n) \o RequirementsFrom(n + 1, num)

all_requirements == SyslogRequirements \o RequirementsFrom(1, num_accounts)

\* lines 36-71: whether requirement self depends on requirement req
DependsOn(self, req) ==
    CASE self.kind = "CreateAccount" -> FALSE
      [] self.kind = "AdminAccess" ->
            req.kind = "CreateAccount" /\ req.account = self.account
      [] self.kind = "CloudTrailSNSTopic" ->
            \/ req.kind = "CreateAccount" /\ req.account = 0
            \/ req.kind = "AdminAccess" /\ req.account = self.account
      [] self.kind = "CloudTrailTrail" ->
            \/ req.kind = "S3Bucket" /\ req.account = 0
            \/ req.kind = "CloudTrailSNSTopic" /\ req.account = self.account
      [] self.kind = "S3Bucket" ->
            \/ req.kind = "CreateAccount" /\ req.account # self.account
            \/ req.kind = "AdminAccess" /\ req.account = self.account
      [] self.kind = "SQSQueue" ->
            \/ req.kind = "CloudTrailSNSTopic" /\ req.account # self.account
            \/ req.kind = "AdminAccess" /\ req.account = self.account

\* req.get_dependencies(requirements): the positions, among the positions
\* requirements of all_requirements, of the requirements that k depends on
get_dependencies(k, requirements) ==
    {d \in requirements : DependsOn(all_requirements[k], all_requirements[d])}

\* a builder that hands a requirement only the requirements built so far
requirements_so_far(k) == 1..k

\* line 99: the list handed to get_dependencies is the complete list
requirements_given(k) == DOMAIN all_requirements

\* g.add_edge(dep, req) for every dep of deps: req joins dep's successors
add_edges(adj, deps, req) ==
    [d \in DOMAIN adj |->
        IF d \in deps /\ req \notin Range(adj[d]) THEN Append(adj[d], req) ELSE adj[d]]

\* lines 96-102: one iteration of the loop over all_requirements
BuildAddRequirement ==
    /\ b_pc = "build"
    /\ b_i <= Len(all_requirements)
    /\ LET dependencies == get_dependencies(b_i, requirements_given(b_i))
       IN  /\ g_nodes' = AddEdgeNodes(AddNode(g_nodes, b_i), InOrder(dependencies))
           /\ g_adj' = add_edges(g_adj, dependencies, b_i)
    /\ b_i' = b_i + 1
    /\ UNCHANGED <<num_accounts, b_pc, breadth_first, inbound_counts, ready_queue,
                   sorted_nodes, ts_pc>>

\* line 103, and the script's call of topological_sort on the graph
BuildReturn ==
    /\ b_pc = "build"
    /\ b_i > Len(all_requirements)
    /\ b_pc' = "built"
    /\ ts_pc' = "start"
    /\ UNCHANGED <<num_accounts, b_i, g_nodes, g_adj, breadth_first, inbound_counts,
                   ready_queue, sorted_nodes>>

(* --------------------------- topological_sort ------------------------- *)

\* dag.edges(): every node's out-edges, as a set
GraphEdges == {e \in Range(g_nodes) \X Range(g_nodes) : e[2] \in Range(g_adj[e[1]])}

\* counts that take the outbound edges for the inbound ones
init_outbound_counts(nodes, edges) ==
    [node \in Range(nodes) |-> Cardinality({e \in edges : e[1] = node})]

\* lines 109-116
init_inbound_counts(nodes, edges) ==
    [node \in Range(nodes) |-> Cardinality({e \in edges : e[2] = node})]

\* lines 118-121
init_ready_queue(counts, nodes) == SelectSeq(nodes, LAMBDA n : counts[n] = 0)

\* lines 123-131: the counts after one decrement per node of nodes, and the
\* nodes whose count became zero, in the order of nodes
RECURSIVE reduce_inbound_connections(_, _, _)
reduce_inbound_connections(counts, nodes, nodes_without_inbound) ==
    IF nodes = <<>> THEN [counts |-> counts, ready |-> nodes_without_inbound]
    ELSE LET node == Head(nodes)
             c == [counts EXCEPT ![node] = counts[node] - 1]
         IN  reduce_inbound_connections(
                 c, Tail(nodes),
                 IF c[node] = 0 THEN Append(nodes_without_inbound, node)
                                ELSE nodes_without_inbound)

\* a sort that takes the oldest ready node under either policy
pop_index_fifo(queue, bf) == 1

\* lines 137-140: popleft() takes the first, pop() the last of the deque
pop_index(queue, bf) == IF bf THEN 1 ELSE Len(queue)

\* lines 133-135
SortStart ==
    /\ ts_pc = "start"
    /\ sorted_nodes' = <<>>
    /\ inbound_counts' = init_inbound_counts(g_nodes, GraphEdges)
    /\ ready_queue' = init_ready_queue(init_inbound_counts(g_nodes, GraphEdges), g_nodes)
    /\ ts_pc' = "loop"
    /\ UNCHANGED <<g_nodes, g_adj, breadth_first>>

\* lines 136-143: one iteration of the while loop
SortIterate ==
    /\ ts_pc = "loop"
    /\ Len(ready_queue) # 0
    /\ LET k == pop_index(ready_queue, breadth_first)
           current_node == ready_queue[k]
           rest == SubSeq(ready_queue, 1, k - 1) \o
                   SubSeq(ready_queue, k + 1, Len(ready_queue))
           r == reduce_inbound_connections(inbound_counts, g_adj[current_node], <<>>)
       IN  /\ sorted_nodes' = Append(sorted_nodes, current_node)
           /\ inbound_counts' = r.counts
           /\ ready_queue' = rest \o r.ready
    /\ UNCHANGED <<g_nodes, g_adj, breadth_first, ts_pc>>

\* line 144: the ready queue is empty; return sorted_nodes
SortReturn ==
    /\ ts_pc = "loop"
    /\ Len(ready_queue) = 0
    /\ ts_pc' = "returned"
    /\ UNCHANGED <<g_nodes, g_adj, breadth_first, inbound_counts, ready_queue, sorted_nodes>>

(* ------------------------ run_concurrently ---------------------------- *)

\* set(in_progress.values())
in_progress_values == {in_progress[f] : f \in DOMAIN in_progress}

\* a check that finds no predecessor in progress, whatever is running
in_progress_predecessors_none(node) == {}

\* a check that forgets to intersect with the in-progress nodes
in_progress_predecessors_all(node) == predecessors(node)

\* wait_on_predecessors, line 186
in_progress_predecessors(node) == predecessors(node) \cap in_progress_values

\* a pool that starts a thread per work item
IdleWorkerUnbounded == TRUE

\* a pool thread is free to take the next work item
IdleWorker == Cardinality(worker) < max_workers

\* the futures still in the pool's work queue (FIFO: lowest number first)
Queued == {f \in DOMAIN fut : fut[f] = "PENDING"}

\* leaving the with block without joining the pool threads
ShutdownNoWait == TRUE

\* executor.shutdown(wait=True) at the end of the with block: every pool
\* thread has drained the queue and finished its work item and callbacks
ShutdownComplete == Queued = {} /\ worker = {}

\* a work item that always computes the first node of the ordering
future_result_first(f) == fun(breadth_first_sorted_nodes[1])

\* future.result() of the future submitted at loop position f (line 196):
\* the outcome of fun(node)
future_result(f) == fun(breadth_first_sorted_nodes[f])

\* a loop that steps over a node of the ordering
NextIterationSkip ==
    /\ i' = i + 2
    /\ d_pc' = IF i + 2 > Len(breadth_first_sorted_nodes) THEN "shutdown" ELSE "wait"

\* the loop's next position after finishing with future f
NextIteration ==
    /\ i' = i + 1
    /\ d_pc' = IF i + 1 > Len(breadth_first_sorted_nodes) THEN "shutdown" ELSE "wait"

\* line 195: the poll loop leaves when no predecessor is in progress
WaitOnPredecessors ==
    /\ d_pc = "wait"
    /\ in_progress_predecessors(breadth_first_sorted_nodes[i]) = {}
    /\ d_pc' = "submit"
    /\ UNCHANGED <<i, fut, callbacks, hd, worker, results, in_progress>>

\* line 196: executor.submit(fun, node) queues a work item for a new future
Submit ==
    /\ d_pc = "submit"
    /\ fut' = (i :> "PENDING") @@ fut
    /\ hd' = (i :> "none") @@ hd
    /\ d_pc' = "register"
    /\ UNCHANGED <<i, callbacks, worker, results, in_progress>>

\* a loop that does not register the future
RegisterExecutionSkipped ==
    /\ d_pc = "register"
    /\ d_pc' = "add_done_callback"
    /\ UNCHANGED <<i, fut, callbacks, hd, worker, results, in_progress>>

\* line 197 / 174: in_progress[future] = node
RegisterExecution ==
    /\ d_pc = "register"
    /\ in_progress' = (i :> breadth_first_sorted_nodes[i]) @@ in_progress
    /\ d_pc' = "add_done_callback"
    /\ UNCHANGED <<i, fut, callbacks, hd, worker, results>>

\* line 198: future.add_done_callback(handle_done); a finished future runs
\* the callback at once on the calling (dispatch) thread
AddDoneCallback ==
    /\ d_pc = "add_done_callback"
    /\ IF fut[i] = "FINISHED"
         THEN /\ hd' = [hd EXCEPT ![i] = "dispatch_179"]
              /\ d_pc' = "handle_done"
              /\ UNCHANGED <<i, callbacks>>
         ELSE /\ callbacks' = callbacks \cup {i}
              /\ NextIteration
              /\ UNCHANGED hd
    /\ UNCHANGED <<fut, worker, results, in_progress>>

\* a pool thread takes the oldest queued work item and calls fun(node)
WorkerStart(f) ==
    /\ f \in Queued
    /\ \A q \in Queued : f <= q
    /\ IdleWorker
    /\ fut' = [fut EXCEPT ![f] = "RUNNING"]
    /\ worker' = worker \cup {f}
    /\ UNCHANGED <<i, d_pc, callbacks, hd, results, in_progress>>

\* fun(node) returns or raises: the future becomes FINISHED (set_result /
\* set_exception) and the pool thread goes on to invoke attached callbacks
WorkerFinish(f) ==
    /\ f \in DOMAIN fut
    /\ fut[f] = "RUNNING"
    /\ fut' = [fut EXCEPT ![f] = "FINISHED"]
    /\ IF f \in callbacks
         THEN hd' = [hd EXCEPT ![f] = "worker_179"] /\ UNCHANGED worker
         ELSE worker' = worker \ {f} /\ UNCHANGED hd
    /\ UNCHANGED <<i, d_pc, callbacks, results, in_progress>>

\* what the thread that ran handle_done for f does next
AfterCallback(f, thread) ==
    IF thread = "worker"
      THEN worker' = worker \ {f} /\ UNCHANGED <<i, d_pc>>
      ELSE NextIteration /\ UNCHANGED worker

\* line 179: results[in_progress[future]] = future.result(); future.result()
\* re-raises the work function's exception, which ends the callback (the
\* futures library logs and drops an exception of a callback)
HandleDoneResult(f, thread) ==
    /\ f \in DOMAIN hd
    /\ thread \in {"worker", "dispatch"}
    /\ hd[f] = IF thread = "worker" THEN "worker_179" ELSE "dispatch_179"
    /\ IF IsException(future_result(f))
         THEN /\ hd' = [hd EXCEPT ![f] = "failed"]
              /\ AfterCallback(f, thread)
              /\ UNCHANGED results
         ELSE /\ results' = [n \in DOMAIN results \cup {in_progress[f]} |->
                             IF n = in_progress[f] THEN future_result(f) ELSE results[n]]
              /\ hd' = [hd EXCEPT ![f] = IF thread = "worker" THEN "worker_180"
                                                              ELSE "dispatch_180"]
              /\ UNCHANGED <<i, d_pc, worker>>
    /\ UNCHANGED <<fut, callbacks, in_progress>>

\* line 180: del in_progress[future]
HandleDoneDelete(f, thread) ==
    /\ f \in DOMAIN hd
    /\ thread \in {"worker", "dispatch"}
    /\ hd[f] = IF thread = "worker" THEN "worker_180" ELSE "dispatch_180"
    /\ in_progress' = [x \in DOMAIN in_progress \ {f} |-> in_progress[x]]
    /\ hd' = [hd EXCEPT ![f] = "done"]
    /\ AfterCallback(f, thread)
    /\ UNCHANGED <<fut, callbacks, results>>

\* line 199: the with block has shut the pool down; return results
Return ==
    /\ d_pc = "shutdown"
    /\ ShutdownComplete
    /\ d_pc' = "returned"
    /\ UNCHANGED <<i, fut, callbacks, hd, worker, results, in_progress>>

\* run_concurrently runs while run_serially does not (the script calls
\* them in turn), and leaves the graph, its input and the sorter alone
RunConcurrentlyFrame ==
    /\ s_pc \in {"idle", "returned"}
    /\ UNCHANGED <<b_vars, ts_vars, s_vars, raises, dag, breadth_first_sorted_nodes>>

\* the state of run_concurrently at line 193, before the first iteration
RunConcurrentlyEntry ==
    /\ i = 1
    /\ d_pc = IF Len(breadth_first_sorted_nodes) = 0 THEN "shutdown" ELSE "wait"
    /\ fut = <<>>
    /\ hd = <<>>
    /\ callbacks = {}
    /\ worker = {}
    /\ results = <<>>
    /\ in_progress = <<>>

\* edges that the ordering 1..n respects
ForwardEdges(n) == {e \in (1..n) \X (1..n) : e[1] < e[2]}

\* topological_sort and run_serially not in use
BuildIdle == num_accounts = 0 /\ b_i = 1 /\ b_pc = "idle"

SortIdle ==
    /\ BuildIdle
    /\ g_nodes = <<>> /\ g_adj = <<>> /\ breadth_first = TRUE
    /\ inbound_counts = <<>> /\ ready_queue = <<>> /\ sorted_nodes = <<>>
    /\ ts_pc = "idle"

SerialIdle ==
    /\ depth_first_sorted_nodes = <<>> /\ s_i = 1 /\ serial_results = <<>>
    /\ s_calls = <<>> /\ s_pc = "idle"

\* run_concurrently on a graph and a valid ordering of it, with a work
\* function that never raises. The ordering is 1..n and the graph any set of
\* edges from a lower to a higher number: every pair of a DAG and a valid
\* ordering of it is one of these up to the names of the nodes.
Init ==
    /\ SortIdle /\ SerialIdle
    /\ raises = {}
    /\ breadth_first_sorted_nodes = [k \in 1..MaxRunNodes |-> k]
    /\ dag \in {es \in SUBSET ForwardEdges(MaxRunNodes) : Cardinality(es) <= MaxRunEdges}
    /\ RunConcurrentlyEntry

Next ==
    \/ WaitOnPredecessors /\ RunConcurrentlyFrame
    \/ Submit /\ RunConcurrentlyFrame
    \/ RegisterExecution /\ RunConcurrentlyFrame
    \/ AddDoneCallback /\ RunConcurrentlyFrame
    \/ \E f \in DOMAIN fut : WorkerStart(f) /\ RunConcurrentlyFrame
    \/ \E f \in DOMAIN fut : WorkerFinish(f) /\ RunConcurrentlyFrame
    \/ \E f \in DOMAIN fut : HandleDoneResult(f, "worker") /\ RunConcurrentlyFrame
    \/ \E f \in DOMAIN fut : HandleDoneResult(f, "dispatch") /\ RunConcurrentlyFrame
    \/ \E f \in DOMAIN fut : HandleDoneDelete(f, "worker") /\ RunConcurrentlyFrame
    \/ \E f \in DOMAIN fut : HandleDoneDelete(f, "dispatch") /\ RunConcurrentlyFrame
    \/ Return /\ RunConcurrentlyFrame

Spec == Init /\ [][Next]_vars

\* run_concurrently on graphs with more independent nodes than pool threads
InitWide ==
    /\ SortIdle /\ SerialIdle
    /\ raises = {}
    /\ breadth_first_sorted_nodes = [k \in 1..MaxWideNodes |-> k]
    /\ dag \in {es \in SUBSET ForwardEdges(MaxWideNodes) : Cardinality(es) <= 1}
    /\ RunConcurrentlyEntry

SpecWide == InitWide /\ [][Next]_vars

\* run_concurrently with a work function that raises for any set of nodes
InitFail ==
    /\ SortIdle /\ SerialIdle
    /\ raises \in SUBSET (1..MaxFailNodes)
    /\ breadth_first_sorted_nodes = [k \in 1..MaxFailNodes |-> k]
    /\ dag \in {es \in SUBSET ForwardEdges(MaxFailNodes) : Cardinality(es) <= 2}
    /\ RunConcurrentlyEntry

SpecFail == InitFail /\ [][Next]_vars

\* run_concurrently with a work function that never raises, the pool
\* threads and the dispatch thread being scheduled whenever they can run
InitLive ==
    /\ SortIdle /\ SerialIdle
    /\ raises = {}
    /\ breadth_first_sorted_nodes = [k \in 1..MaxEqNodes |-> k]
    /\ dag \in SUBSET ForwardEdges(MaxEqNodes)
    /\ RunConcurrentlyEntry

SpecLive == InitLive /\ [][Next]_vars /\ WF_vars(Next)

(* ---------------------------- run_serially ---------------------------- *)

\* a loop that swallows the work function's exception and carries on
SerialOutcomeSwallowed(node) == "loop"

\* line 159: an exception of fun(node) leaves run_serially at once
SerialOutcome(node) == IF IsException(fun(node)) THEN "raised" ELSE "loop"

\* lines 158-160: one iteration of the loop
SerialCall ==
    /\ s_pc = "loop"
    /\ s_i <= Len(depth_first_sorted_nodes)
    /\ LET node == depth_first_sorted_nodes[s_i]
       IN  /\ s_calls' = Append(s_calls, node)
           /\ s_pc' = SerialOutcome(node)
           /\ IF SerialOutcome(node) = "raised"
                THEN UNCHANGED <<s_i, serial_results>>
                ELSE /\ serial_results' =
                          [n \in DOMAIN serial_results \cup {node} |->
                              IF n = node THEN fun(node) ELSE serial_results[n]]
                     /\ s_i' = s_i + 1
    /\ UNCHANGED depth_first_sorted_nodes

\* line 161
SerialReturn ==
    /\ s_pc = "loop"
    /\ s_i > Len(depth_first_sorted_nodes)
    /\ s_pc' = "returned"
    /\ UNCHANGED <<depth_first_sorted_nodes, s_i, serial_results, s_calls>>

RunSeriallyFrame == UNCHANGED <<b_vars, ts_vars, raises, rc_vars>>

RunSeriallyEntry == s_i = 1 /\ serial_results = <<>> /\ s_calls = <<>> /\ s_pc = "loop"

RunConcurrentlyIdle ==
    /\ dag = {} /\ breadth_first_sorted_nodes = <<>>
    /\ i = 1 /\ d_pc = "idle" /\ fut = <<>> /\ hd = <<>> /\ callbacks = {}
    /\ worker = {} /\ results = <<>> /\ in_progress = <<>>

\* run_serially on any sequence of nodes with any set of raising nodes
InitSerial ==
    /\ SortIdle /\ RunConcurrentlyIdle
    /\ raises \in SUBSET (1..MaxSerialNodes)
    /\ \E n \in 1..MaxSerialNodes :
         depth_first_sorted_nodes \in [1..n -> 1..MaxSerialNodes]
    /\ RunSeriallyEntry

NextSerial ==
    \/ SerialCall /\ RunSeriallyFrame
    \/ SerialReturn /\ RunSeriallyFrame

SpecSerial == InitSerial /\ [][NextSerial]_vars

\* the script's two runs (lines 234 and 242): run_serially on one valid
\* ordering of the graph, then run_concurrently on another
InitEquiv ==
    /\ SortIdle
    /\ raises \in SUBSET (1..MaxEqNodes)
    /\ breadth_first_sorted_nodes = [k \in 1..MaxEqNodes |-> k]
    /\ dag \in SUBSET ForwardEdges(MaxEqNodes)
    /\ depth_first_sorted_nodes \in
         {s \in [1..MaxEqNodes -> 1..MaxEqNodes] : IsTopological(s, dag)}
    /\ RunSeriallyEntry
    /\ RunConcurrentlyEntry

NextEquiv == NextSerial \/ Next

SpecEquiv == InitEquiv /\ [][NextEquiv]_vars

\* topological_sort of a graph the builder recorded from any dependency
\* relation (cyclic ones too), under either policy
InitSort ==
    /\ BuildIdle /\ SerialIdle /\ RunConcurrentlyIdle
    /\ raises = {}
    /\ \E n \in 1..MaxSortNodes :
         \E es \in {x \in SUBSET {e \in (1..n) \X (1..n) : e[1] # e[2]} :
                        Cardinality(x) <= MaxSortEdges} :
            /\ g_nodes = GraphNodes(<<>>, 1, n, es)
            /\ g_adj = GraphAdj(n, es)
    /\ breadth_first \in BOOLEAN
    /\ inbound_counts = <<>> /\ ready_queue = <<>> /\ sorted_nodes = <<>>
    /\ ts_pc = "start"

TopologicalSortFrame == UNCHANGED <<b_vars, s_vars, raises, rc_vars>>

NextSort ==
    \/ SortStart /\ TopologicalSortFrame
    \/ SortIterate /\ TopologicalSortFrame
    \/ SortReturn /\ TopologicalSortFrame

SpecSort == InitSort /\ [][NextSort]_vars

\* build_graph(num_accounts) followed by topological_sort of its graph
InitBuild ==
    /\ SerialIdle /\ RunConcurrentlyIdle
    /\ raises = {}
    /\ num_accounts \in 0..MaxAccounts
    /\ b_i = 1 /\ b_pc = "build"
    /\ g_nodes = <<>>
    /\ g_adj = [d \in DOMAIN all_requirements |-> <<>>]
    /\ breadth_first \in BOOLEAN
    /\ inbound_counts = <<>> /\ ready_queue = <<>> /\ sorted_nodes = <<>>
    /\ ts_pc = "idle"

BuildFrame == UNCHANGED <<s_vars, raises, rc_vars>>

NextBuild ==
    \/ BuildAddRequirement /\ BuildFrame
    \/ BuildReturn /\ BuildFrame
    \/ SortStart /\ TopologicalSortFrame
    \/ SortIterate /\ TopologicalSortFrame
    \/ SortReturn /\ TopologicalSortFrame

SpecBuild == InitBuild /\ [][NextBuild]_vars

(* ------------------- properties of run_concurrently ------------------- *)

\* the future submitted for a node has begun / is in / has left fun(node)
Started(node) == \E f \in DOMAIN fut :
    breadth_first_sorted_nodes[f] = node /\ fut[f] \in {"RUNNING", "FINISHED"}
Executing(node) == \E f \in DOMAIN fut :
    breadth_first_sorted_nodes[f] = node /\ fut[f] = "RUNNING"
Ended(node) == \E f \in DOMAIN fut :
    breadth_first_sorted_nodes[f] = node /\ fut[f] = "FINISHED"
\* handle_done has run to its end for the node's future
Completed(node) == \E f \in DOMAIN hd :
    breadth_first_sorted_nodes[f] = node /\ hd[f] = "done"

\* C1: for every dependency edge (d, n), once n's work function has started
\* d's work function has ended; the two never execute at the same time.
C1_NoOverlap ==
    \A e \in dag :
        /\ Started(e[2]) => Ended(e[1])
        /\ ~(Executing(e[1]) /\ Executing(e[2]))

\* a successor executes after its predecessor ended, next to an unrelated
\* node that is executing too
C1_Witness ==
    \E e \in dag : \E m \in Range(breadth_first_sorted_nodes) :
        /\ Ended(e[1]) /\ Executing(e[2])
        /\ m \notin {e[1], e[2]} /\ Executing(m)

\* C2: every submitted node has all its direct and transitive predecessors
\* finished with their results recorded, and the poll of line 186 passes
\* exactly when every direct and transitive predecessor has completed.
C2_AllPredecessorsDone ==
    /\ \A f \in DOMAIN fut :
         \A p \in Ancestors(breadth_first_sorted_nodes[f], dag) :
            Ended(p) /\ p \in DOMAIN results
    /\ d_pc = "wait" =>
         ( in_progress_predecessors(breadth_first_sorted_nodes[i]) = {}
           <=> \A p \in Ancestors(breadth_first_sorted_nodes[i], dag) : Completed(p) )

\* a node with a transitive, non-direct predecessor has been submitted
C2_Witness ==
    \E f \in DOMAIN fut :
        LET n == breadth_first_sorted_nodes[f]
        IN  \E p \in Ancestors(n, dag) : <<p, n>> \notin dag

\* C3: never more than max_workers work functions execute at once.
C3_BoundedParallelism ==
    Cardinality({f \in DOMAIN fut : fut[f] = "RUNNING"}) <= 4

\* four work functions execute while a fifth node is submitted, registered
\* in the in-progress dict and kept in the queue
C3_Witness ==
    /\ Cardinality({f \in DOMAIN fut : fut[f] = "RUNNING"}) = 4
    /\ \E f \in DOMAIN in_progress : fut[f] = "PENDING"

FirstRaise ==
    LET R == {k \in DOMAIN depth_first_sorted_nodes : depth_first_sorted_nodes[k] \in raises}
    IN  IF R = {} THEN 0 ELSE CHOOSE k \in R : \A m \in R : k <= m

\* C5: the result map run_concurrently returns equals the one run_serially
\* returned for the same graph.
C5_ResultEquivalence ==
    (s_pc = "returned" /\ d_pc = "returned") => results = serial_results

\* both runs have returned, and they were given different orderings
C5_Witness ==
    /\ s_pc = "returned" /\ d_pc = "returned"
    /\ depth_first_sorted_nodes # breadth_first_sorted_nodes
    /\ dag # {}

\* C10: run_serially calls fun on the nodes in input order, one per
\* iteration, stores each value under its node, and after a raise at
\* position k has propagated no later node is ever called.
C10_SerialFailFast ==
    /\ s_pc # "idle" =>
        /\ Len(s_calls) <= Len(depth_first_sorted_nodes)
        /\ s_calls = SubSeq(depth_first_sorted_nodes, 1, Len(s_calls))
        /\ FirstRaise # 0 => Len(s_calls) <= FirstRaise
        /\ LET done == SubSeq(depth_first_sorted_nodes, 1, s_i - 1)
           IN  /\ DOMAIN serial_results = Range(done)
               /\ \A n \in Range(done) : serial_results[n] = sync(n)
    /\ s_pc = "raised" => FirstRaise # 0 /\ Len(s_calls) = FirstRaise /\ s_i = FirstRaise
    /\ s_pc = "returned" => FirstRaise = 0 /\ s_calls = depth_first_sorted_nodes

\* the work function raised at a node that is neither first nor last
C10_Witness ==
    /\ s_pc = "raised"
    /\ 1 < FirstRaise /\ FirstRaise < Len(depth_first_sorted_nodes)

(* ------------------- properties of topological_sort ------------------- *)

\* the nodes reachable from node by at most k edges of the graph
RECURSIVE ReachableWithin(_, _)
ReachableWithin(node, k) ==
    IF k = 0 THEN {}
    ELSE LET near == ReachableWithin(node, k - 1)
         IN  near \cup Range(g_adj[node]) \cup UNION {Range(g_adj[m]) : m \in near}

\* some node of the graph lies on a cycle
HasCycle == \E node \in Range(g_nodes) : node \in ReachableWithin(node, Len(g_nodes))

\* edge e has its source at a strictly smaller index of seq than its target
EdgeRespected(seq, e) ==
    \E a, b \in DOMAIN seq : a < b /\ seq[a] = e[1] /\ seq[b] = e[2]

\* seq holds every node of the graph exactly once
EveryNodeOnce(seq) ==
    /\ Range(seq) = Range(g_nodes)
    /\ \A a, b \in DOMAIN seq : seq[a] = seq[b] => a = b

\* C6: in the returned sequence every edge (d, n) of the graph has d at a
\* strictly smaller index than n, for every graph and both policies.
C6_TopologicalValidity ==
    ts_pc = "returned" => \A e \in GraphEdges : EdgeRespected(sorted_nodes, e)

\* C7: the returned sequence contains every node of the graph exactly once.
C7_Completeness ==
    ts_pc = "returned" => EveryNodeOnce(sorted_nodes)

\* C8: for a graph with a cycle topological_sort does not return a sequence
\* (it reports the cycle instead).
C8_CycleReported ==
    HasCycle => ts_pc # "returned"

\* on acyclic graphs the returned sequence is a complete topological order
SortCorrectOnAcyclic ==
    (ts_pc = "returned" /\ ~HasCycle) =>
        /\ EveryNodeOnce(sorted_nodes)
        /\ \A e \in GraphEdges : EdgeRespected(sorted_nodes, e)

\* the dependency relation of the diamond A->B, A->C, B->D, C->D
DiamondEdges == {<<1, 2>>, <<1, 3>>, <<2, 4>>, <<3, 4>>}

\* the graph under sort is the diamond as the builder records it
IsDiamond ==
    /\ g_nodes = GraphNodes(<<>>, 1, Cardinality(UNION {{e[1], e[2]} : e \in DiamondEdges}),
                            DiamondEdges)
    /\ g_adj = GraphAdj(Len(g_nodes), DiamondEdges)

\* C9: on the diamond the sort returns A, B, C, D breadth-first and
\* A, C, B, D with breadth_first=False.
C9_DiamondOrders ==
    (IsDiamond /\ ts_pc = "returned") =>
        sorted_nodes = IF breadth_first THEN <<1, 2, 3, 4>> ELSE <<1, 3, 2, 4>>

\* the LIFO sort of the diamond has returned
C9_Witness == IsDiamond /\ ts_pc = "returned" /\ ~breadth_first

(* ------------ run_concurrently with a raising work function ----------- *)

\* the loop position of a node in the ordering
Position(node) ==
    CHOOSE k \in DOMAIN breadth_first_sorted_nodes : breadth_first_sorted_nodes[k] = node

\* the nodes connected to the nodes of S by edges in either direction
RECURSIVE BranchOf(_)
BranchOf(S) ==
    LET T == S \cup {e[1] : e \in {x \in dag : x[2] \in S}}
               \cup {e[2] : e \in {x \in dag : x[1] \in S}}
    IN  IF T = S THEN S ELSE BranchOf(T)

\* the dispatch thread polls a node with a predecessor in progress while the
\* pool has nothing queued or running: no step is left
Deadlocked ==
    /\ d_pc = "wait"
    /\ in_progress_predecessors(breadth_first_sorted_nodes[i]) # {}
    /\ Queued = {} /\ worker = {}

\* C11: when a node of one branch raises, every node of a branch without a
\* raising node is dispatched, completes and has its value in the result map
\* once the run has come to its end.
C11_FailureContainment ==
    (d_pc = "returned" \/ Deadlocked) =>
        \A m \in Range(breadth_first_sorted_nodes) :
            BranchOf({m}) \cap raises = {} =>
                m \in DOMAIN results /\ results[m] = sync(m)

\* the positions of the nodes that have d as a direct predecessor
SuccessorPositions(d) == {Position(e[2]) : e \in {x \in dag : x[1] = d}}

\* C12: a node d for which the work function raises gets no result and stays
\* in the in-progress dict, and the dispatch loop never gets past the poll of
\* the first later node with d as a direct predecessor: that node and the
\* nodes after it are never submitted and the call does not return.
C12_FailureNeverRecorded ==
    \A f \in DOMAIN fut :
        LET d == breadth_first_sorted_nodes[f]
            succ == SuccessorPositions(d)
        IN  d \in raises =>
              /\ d \notin DOMAIN results
              /\ hd[f] \notin {"worker_180", "dispatch_180", "done"}
              /\ (f < i \/ hd[f] = "failed") => f \in DOMAIN in_progress
              /\ succ # {} =>
                   /\ d_pc # "returned"
                   /\ \A k \in succ : i <= k
                   /\ \A k \in succ : i = k => d_pc = "wait"
                   /\ \A k \in DOMAIN breadth_first_sorted_nodes :
                        (\E m \in succ : m <= k) => k \notin DOMAIN fut

\* the callback of a raising node has failed and the loop is stuck at the
\* poll of its successor, with a later node left unsubmitted
C12_Witness ==
    /\ Deadlocked
    /\ i < Len(breadth_first_sorted_nodes)
    /\ \E f \in DOMAIN hd :
         /\ hd[f] = "failed"
         /\ <<breadth_first_sorted_nodes[f], breadth_first_sorted_nodes[i]>> \in dag

C14_InProgressEmptyAtEnds ==
    /\ (i = 1 /\ d_pc = "wait") => in_progress = <<>>
    /\ d_pc = "returned" => in_progress = <<>>

\* C19: at every poll each submitted node without a result is in the
\* in-progress dict, and a registered node that has left the dict has its
\* result in the result map.
C19_InProgressCoversUnfinished ==
    /\ d_pc = "wait" =>
         \A f \in DOMAIN fut :
            breadth_first_sorted_nodes[f] \notin DOMAIN results => f \in DOMAIN in_progress
    /\ \A f \in DOMAIN fut :
         ((f < i \/ d_pc \in {"add_done_callback", "handle_done"})
             /\ f \notin DOMAIN in_progress)
         => breadth_first_sorted_nodes[f] \in DOMAIN results

\* a poll while one node's work function ended before its callback was
\* attached, and another finished node is still registered
C19_Witness ==
    /\ d_pc = "wait"
    /\ \E f \in DOMAIN fut : f \notin DOMAIN in_progress
    /\ \E f \in DOMAIN in_progress : fut[f] = "FINISHED" /\ hd[f] = "worker_179"

\* the futures whose handle_done is being executed by some thread
InHandleDone ==
    {f \in DOMAIN hd : hd[f] \in {"worker_179", "worker_180", "dispatch_179", "dispatch_180"}}

\* C15: no two threads are inside handle_done at once, and the dispatch
\* thread makes its predecessor check or its registration only while no pool
\* thread is between the two writes of handle_done.
C15_MutualExclusion ==
    /\ Cardinality(InHandleDone) <= 1
    /\ d_pc \in {"wait", "register"} => \A f \in DOMAIN hd : hd[f] # "worker_180"

\* C18: with a work function that never raises, every poll of the dispatch
\* loop ends and the call returns.
C18_Terminates ==
    /\ <>(d_pc = "returned")
    /\ [](d_pc = "wait" => <>(d_pc = "submit"))

\* the call has returned after the loop had to wait for a predecessor
C18_Witness ==
    /\ d_pc = "returned"
    /\ i = Len(breadth_first_sorted_nodes) + 1
    /\ Cardinality(dag) >= 2

(* ------------- further properties of topological_sort ----------------- *)

\* C17: the ready queue is seeded with the nodes without inbound edges in
\* the order in which the builder constructed them.
C17_SeedInConstructionOrder ==
    (ts_pc = "loop" /\ sorted_nodes = <<>>) =>
        ready_queue = InOrder({n \in Range(g_nodes) : \A e \in GraphEdges : e[2] # n})

\* on the node order of the graph the seed is what the code computes
SeedInGraphOrder ==
    (ts_pc = "loop" /\ sorted_nodes = <<>>) =>
        ready_queue = SelectSeq(g_nodes, LAMBDA n : \A e \in GraphEdges : e[2] # n)

\* seq has no element twice
NoDuplicates(seq) == \A a, b \in DOMAIN seq : seq[a] = seq[b] => a = b

\* C20: during the sort every inbound count is non-negative and equals the
\* number of inbound edges from nodes not yet emitted, no node is twice in
\* the ready queue or the output or in both, and the loop has made at most
\* as many iterations as the graph has nodes.
C20_SortInvariants ==
    ts_pc \in {"loop", "returned"} =>
        /\ \A n \in Range(g_nodes) :
              /\ inbound_counts[n] >= 0
              /\ inbound_counts[n] =
                   Cardinality({e \in GraphEdges :
                                   e[2] = n /\ e[1] \notin Range(sorted_nodes)})
        /\ NoDuplicates(sorted_nodes \o ready_queue)
        /\ \A n \in Range(ready_queue) : inbound_counts[n] = 0
        /\ Len(sorted_nodes) <= Len(g_nodes)
        /\ ts_pc = "returned" => ready_queue = <<>>

\* the sort of a cyclic graph has returned after emitting some nodes
C20_Witness ==
    /\ ts_pc = "returned" /\ HasCycle
    /\ sorted_nodes # <<>>
    /\ \E n \in Range(g_nodes) : inbound_counts[n] > 0

(* ---------------------- properties of build_graph --------------------- *)

\* the dependency relation of the complete requirement list
DependencyEdges ==
    {e \in (DOMAIN all_requirements) \X (DOMAIN all_requirements) :
        DependsOn(all_requirements[e[2]], all_requirements[e[1]])}

\* C16: the built graph has an edge (d, n) exactly when d is a dependency of
\* n among all constructed nodes, earlier or later, and its nodes are exactly
\* the constructed nodes, each once.
C16_EdgesAreDependencies ==
    b_pc = "built" =>
        /\ GraphEdges = DependencyEdges
        /\ Range(g_nodes) = DOMAIN all_requirements
        /\ NoDuplicates(g_nodes)
        /\ \A d \in DOMAIN g_adj : NoDuplicates(g_adj[d])

\* a graph is built in which a node depends on a node constructed after it
C16_Witness ==
    /\ b_pc = "built"
    /\ \E e \in GraphEdges : e[1] > e[2]
    /\ g_nodes # [k \in DOMAIN all_requirements |-> k]

\* the loop over the requirements records what the operators GraphNodes and
\* GraphAdj compute from the dependency relation
BuilderOperatorsAgree ==
    b_pc = "built" =>
        /\ g_nodes = GraphNodes(<<>>, 1, Len(all_requirements), DependencyEdges)
        /\ g_adj = GraphAdj(Len(all_requirements), DependencyEdges)

====
